---- MODULE Spec2Model ----
(***************************************************************************)
(* Model of src/main.py: the scheduler loop of main, one scan cycle of     *)
(* check_and_update_products, promote_product_with_retry and RateLimiter.  *)
(*                                                                         *)
(* The program is sequential.  One action is one remote call together with *)
(* the handler code that follows it up to the next remote call or sleep,   *)
(* or one blocking sleep.  The remote marketplace is the environment: the  *)
(* outcome of every remote call and the contents of every page are drawn   *)
(* with \E.  A page is a read-only snapshot; the model keeps its length,   *)
(* has_next_page and end_cursor, and draws the fields of each listing at   *)
(* the place where the loop reads them.                                    *)
(***************************************************************************)
EXTENDS Integers, Sequences, FiniteSets

VARIABLES
    pc,                \* position of the single thread of control
    config,            \* Config snapshot (read-only after load)
    cursor,            \* check_and_update_products: cursor (None is 0)
    item_list,         \* last page returned by get_items
    idx,               \* position of `for product in item_list.items` (1-based)
    norm_name,         \* normalized name of the listing being processed
    attempt,           \* the page loop's `attempt`
    p_attempt,         \* promote_product_with_retry's `attempt`
    total_checked,
    total_promoted,
    total_skipped,
    total_errors,
    promoted_by_name,
    rate_limiter,      \* [consecutive_errors, last_error_time]
    \* history variables
    last_call,         \* remote call issued by the previous step: [call, result, msg]
    cycle_end,         \* how the current cycle reached Reporting
    page_calls,        \* get_items calls issued for the current cursor
    promo_calls,       \* promotion calls issued for the current listing occurrence
    promo_succ,        \* of these, the ones that completed successfully
    pages_fetched,     \* pages successfully fetched in this cycle
    fetched_listings,  \* listings contained in those pages
    abort_rest,        \* listings of the page left unprocessed by an aborting exception
    last_item,         \* listing read by the previous step, with the decision on it
    too_young,         \* listings of this cycle skipped as too young (line 665)
    calc               \* the last two calculate_wait_time(429) calls: inputs and results

vars == <<pc, config, cursor, item_list, idx, norm_name, attempt, p_attempt,
          total_checked, total_promoted, total_skipped, total_errors,
          promoted_by_name, rate_limiter, last_call, cycle_end, page_calls,
          promo_calls, promo_succ, pages_fetched, fetched_listings, abort_rest,
          last_item, calc, too_young>>

----------------------------------------------------------------------------
(* Bounds of the model *)

MaxPages == 2      \* pages the remote serves in one cycle
MaxPageLen == 2    \* listings on one page
MaxErrors == 7     \* consecutive errors the rate limiter is driven to on its own

(* Program constants *)

page_max_retries == 5
max_retries == 3

None == "None"

----------------------------------------------------------------------------
(* Strings.  A name is a sequence of characters; an error message is the   *)
(* set of the markers it contains, so that `marker in message` is          *)
(* membership.                                                             *)

Lower(c) == IF c = "G" THEN "g" ELSE IF c = "B" THEN "b" ELSE c

RECURSIVE LStrip(_)
LStrip(s) == IF s # <<>> /\ Head(s) = " " THEN LStrip(Tail(s)) ELSE s

RECURSIVE RStrip(_)
RStrip(s) ==
    IF s # <<>> /\ s[Len(s)] = " " THEN RStrip(SubSeq(s, 1, Len(s) - 1)) ELSE s

Strip(s) == RStrip(LStrip(s))

_normalize_name(name) ==
    LET stripped == Strip(name)
    IN  [i \in 1..Len(stripped) |-> Lower(stripped[i])]

RawNames == { <<"G">>, <<" ", "g">>, <<"b">> }

NormNames == { _normalize_name(n) : n \in RawNames }

M429 == "429"
MTooManyRequests == "TOO_MANY_REQUESTS"
MTooManyAttempts == "Too many attempts"
MSkipItem == "Propusk tovara"   \* the marker of the retry-exhausted message, transliterated

Markers == {M429, MTooManyRequests, MTooManyAttempts, MSkipItem}

\* str(e) of the exceptions the remote calls raise: no marker, or one.
ErrorMessages == { {} } \cup { {m} : m \in Markers }

----------------------------------------------------------------------------
(* Configuration *)

\* The fields of Config the cycle reads: filters.include_names,
\* filters.exclude_names (both normalized), filters.duplicates_limit,
\* promo_threshold_sec and whether random_delay_between_pages_sec is > 0.
ConfigOf(inc, exc, dl, pd) ==
    [include_names |-> inc, exclude_names |-> exc, duplicates_limit |-> dl,
     promo_threshold_sec |-> 1800, pages_delay |-> pd]

Configs ==
    { ConfigOf({}, {}, dl, FALSE) : dl \in {-1, 0, 1, 2} }
    \cup { ConfigOf(f[1], f[2], 1, TRUE) :
              f \in { <<{<<"g">>}, {}>>, <<{}, {<<"g">>}>>,
                      <<{<<"g">>}, {<<"g">>}>> } }

(* Listings as the item loop reads them: name (a string or not), the       *)
(* approval date (parseable or not) and the seconds elapsed since it.      *)
Listings ==
    [name : RawNames, name_is_str : {TRUE}, date_ok : {TRUE},
     times_passed_sec : {1799, 1800, 1801}]
    \cup [name : RawNames, name_is_str : {TRUE}, date_ok : {FALSE},
          times_passed_sec : {0}]
    \cup [name : {<<>>}, name_is_str : {FALSE}, date_ok : {TRUE},
          times_passed_sec : {1801}]

----------------------------------------------------------------------------
(* RateLimiter *)

RateLimiterInit == [consecutive_errors |-> 0, last_error_time |-> None]

on_error(rl) ==
    [consecutive_errors |-> rl.consecutive_errors + 1, last_error_time |-> "now"]

on_success_NoReset(rl) == rl

\* Lines 385-388
on_success(rl) == [consecutive_errors |-> 0, last_error_time |-> None]

Min(a, b) == IF a <= b THEN a ELSE b

calculate_wait_time_429_NoCap(rl, jitter) ==
    5 * (2 ^ Min(rl.consecutive_errors, 5)) + jitter

\* calculate_wait_time(429), the jitter being the value random.randint drew
calculate_wait_time_429(rl, jitter) ==
    Min(5 * (2 ^ Min(rl.consecutive_errors, 5)) + jitter, 120)

Jitter == 0..10

----------------------------------------------------------------------------
(* Error classification and exception handlers *)

IsRateLimitedPage_Always(msg) == TRUE

\* check_and_update_products: is_rate_limited of the page fetch
IsRateLimitedPage(msg) ==
    M429 \in msg \/ MTooManyRequests \in msg \/ MTooManyAttempts \in msg

IsRateLimitedPromo_AsPage(msg) ==
    M429 \in msg \/ MTooManyRequests \in msg \/ MTooManyAttempts \in msg

\* promote_product_with_retry: the 429 test of the promotion call
IsRateLimitedPromo(msg) == M429 \in msg \/ MTooManyRequests \in msg

PageRetryAllowed_OffByOne(att) == att < page_max_retries

PromoRetryAllowed_OffByOne(att) == att < max_retries

\* `if attempt < page_max_retries - 1` and `if attempt < max_retries - 1`
PageRetryAllowed(att) == att < page_max_retries - 1

PromoRetryAllowed(att) == att < max_retries - 1

Handler_LookupToCycle(site) ==
    CASE site = "get_items" -> "page_handler"
      [] site = "promotion" -> "promote_handler"
      [] site = "lookup" -> "cycle_handler"
      [] site = "item_loop" -> "cycle_handler"

Handler_NoItemHandler(site) ==
    CASE site = "get_items" -> "page_handler"
      [] site = "promotion" -> "promote_handler"
      [] site = "lookup" -> "none"
      [] site = "item_loop" -> "cycle_handler"

\* The innermost `except Exception` enclosing each place an exception can
\* be raised at.
Handler(site) ==
    CASE site = "get_items" -> "page_handler"
      [] site = "promotion" -> "promote_handler"
      [] site = "lookup" -> "item_handler"
      [] site = "item_loop" -> "cycle_handler"

\* Messages returned by promote_product_with_retry, as marker sets.
ExhaustedMessage == {MSkipItem}

OtherErrorMessage(msg) == msg

UnknownErrorMessage == {}

\* `if "Propusk tovara" in message: total_skipped += 1 else: total_errors += 1`
FailureIsSkip(message) == MSkipItem \in message

----------------------------------------------------------------------------
(* Eligibility rules of the item loop *)

NameFiltered_ExcludeFirst(cfg, name) ==
    \/ name \in cfg.exclude_names
    \/ cfg.include_names # {} /\ name \notin cfg.include_names

\* Lines 629-640: the include / exclude test on the normalized name
NameFiltered(cfg, name) ==
    IF cfg.include_names # {}
    THEN name \notin cfg.include_names
    ELSE cfg.exclude_names # {} /\ name \in cfg.exclude_names

TooYoung(cfg, product) == product.times_passed_sec <= cfg.promo_threshold_sec

DuplicateLimitReached_Strict(cfg, pbn, name) ==
    cfg.duplicates_limit >= 0 /\ pbn[name] > cfg.duplicates_limit

DuplicateLimitReached(cfg, pbn, name) ==
    cfg.duplicates_limit >= 0 /\ pbn[name] >= cfg.duplicates_limit

----------------------------------------------------------------------------
(* State *)

NoPage == [count |-> 0, has_next_page |-> FALSE, end_cursor |-> None]

\* No calculate_wait_time(429) call yet: -1 stands for "no value".
NoCalc ==
    [c |-> -1, jitter |-> -1, wait |-> -1,
     prev_c |-> -1, prev_jitter |-> -1, prev_wait |-> -1]

NoItem == [product |-> None, decision |-> "none"]

NoCall == [call |-> "none", result |-> "none", msg |-> {}]

Call(c, r, m) == [call |-> c, result |-> r, msg |-> m]

Cursors == {"c1", "c2"}

counters == <<total_checked, total_promoted, total_skipped, total_errors,
              promoted_by_name>>

page_state == <<cursor, item_list, attempt, page_calls, pages_fetched,
                fetched_listings>>

promo_state == <<p_attempt, promo_calls, promo_succ>>

\* Lines 539-549: the locals of a cycle.
CycleLocals ==
    /\ cursor = None
    /\ total_checked = 0
    /\ total_promoted = 0
    /\ total_skipped = 0
    /\ total_errors = 0
    /\ promoted_by_name = [n \in NormNames |-> 0]
    /\ rate_limiter = RateLimiterInit
    /\ item_list = NoPage
    /\ idx = 0
    /\ norm_name = None
    /\ attempt = 0
    /\ p_attempt = 0
    /\ last_call = NoCall
    /\ cycle_end = "running"
    /\ page_calls = 0
    /\ promo_calls = 0
    /\ promo_succ = 0
    /\ pages_fetched = 0
    /\ fetched_listings = 0
    /\ abort_rest = 0
    /\ last_item = NoItem
    /\ too_young = 0

Init ==
    /\ pc = "fetch"
    /\ calc = NoCalc
    /\ config \in Configs
    /\ CycleLocals

\* An exception that leaves the handler h it was raised under: the
\* outermost handler of the cycle prints it and falls through to the
\* summary; with no handler left it leaves check_and_update_products.
RaiseTo(h) ==
    /\ pc' = IF h = "cycle_handler" THEN "reporting" ELSE "crashed"
    /\ cycle_end' = "exception"
    /\ abort_rest' = IF pc \in {"items", "lookup", "promote"}
                     THEN item_list.count - idx ELSE 0

NextItem_SkipsOne ==
    /\ pc' = "items"
    /\ idx' = idx + 2

\* `continue` of the item loop, or the end of its body.
NextItem ==
    /\ pc' = "items"
    /\ idx' = idx + 1

----------------------------------------------------------------------------
(* Actions *)

\* Lines 555-610: one user.get_items call of the page loop and its handler.
\* After a successful fetch the loop's `attempt` is dead; it is kept at 0,
\* and page_calls restarts for the next cursor.
GetItems ==
    /\ pc = "fetch"
    /\ UNCHANGED <<calc, too_young>>
    /\ last_item' = NoItem
    /\ UNCHANGED <<config, cursor, norm_name, promo_state, total_checked,
                   total_promoted, total_skipped, promoted_by_name>>
    /\ \/ \E n \in 0..MaxPageLen, hn \in BOOLEAN, ec \in Cursors \cup {None} :
            /\ hn => pages_fetched + 1 < MaxPages
            /\ (ec = None) <=> ~hn
            /\ item_list' = [count |-> n, has_next_page |-> hn, end_cursor |-> ec]
            /\ rate_limiter' = on_success(rate_limiter)
            /\ idx' = 1
            /\ attempt' = 0
            /\ pc' = "items"
            /\ last_call' = Call("get_items", "ok", {})
            /\ page_calls' = 0
            /\ pages_fetched' = pages_fetched + 1
            /\ fetched_listings' = fetched_listings + n
            /\ UNCHANGED <<total_errors, cycle_end, abort_rest>>
       \/ \E msg \in ErrorMessages :
            /\ page_calls' = page_calls + 1
            /\ UNCHANGED <<item_list, idx, attempt, pages_fetched, fetched_listings>>
            /\ IF Handler("get_items") # "page_handler"
               THEN /\ RaiseTo(Handler("get_items"))
                    /\ last_call' = Call("get_items", "raised", msg)
                    /\ UNCHANGED <<rate_limiter, total_errors>>
               ELSE IF IsRateLimitedPage(msg)
               THEN /\ rate_limiter' = on_error(rate_limiter)
                    /\ last_call' = Call("get_items", "raised", msg)
                    /\ abort_rest' = abort_rest
                    /\ IF PageRetryAllowed(attempt)
                       THEN /\ pc' = "page_backoff"
                            /\ UNCHANGED <<total_errors, cycle_end>>
                       ELSE /\ total_errors' = total_errors + 1
                            /\ pc' = "reporting"
                            /\ cycle_end' = "fetch_throttled"
               ELSE /\ total_errors' = total_errors + 1
                    /\ pc' = "reporting"
                    /\ cycle_end' = "fetch_error"
                    /\ last_call' = Call("get_items", "raised", msg)
                    /\ UNCHANGED <<rate_limiter, abort_rest>>

\* Lines 582-590: the countdown sleep of the page loop, then `continue`.
\* Lines 612-619 follow a loop that ran out without a page.
PageBackoff ==
    /\ pc = "page_backoff"
    /\ UNCHANGED <<calc, too_young>>
    /\ last_item' = NoItem
    /\ attempt' = attempt + 1
    /\ last_call' = NoCall
    /\ IF attempt + 1 < page_max_retries
       THEN /\ pc' = "fetch"
            /\ UNCHANGED <<total_errors, cycle_end>>
       ELSE /\ total_errors' = total_errors + 1
            /\ pc' = "reporting"
            /\ cycle_end' = "fetch_none"
    /\ UNCHANGED <<config, cursor, item_list, idx, norm_name, promo_state,
                   total_checked, total_promoted, total_skipped,
                   promoted_by_name, rate_limiter, page_calls, pages_fetched,
                   fetched_listings, abort_rest>>

Decide_AgeFirst(cfg, product, pbn) ==
    LET name == _normalize_name(product.name) IN
    IF ~product.date_ok THEN "SkipInvalidDate"
    ELSE IF TooYoung(cfg, product) THEN "SkipTooYoung"
    ELSE IF NameFiltered(cfg, name) THEN "SkipFilter"
    ELSE IF DuplicateLimitReached(cfg, pbn, name) THEN "SkipDuplicateLimit"
    ELSE "Promote"

\* Lines 628-677: the eligibility rules in the order the item loop applies
\* them, for a listing whose name is a string.
Decide(cfg, product, pbn) ==
    LET name == _normalize_name(product.name) IN
    IF NameFiltered(cfg, name) THEN "SkipFilter"
    ELSE IF ~product.date_ok THEN "SkipInvalidDate"
    ELSE IF TooYoung(cfg, product) THEN "SkipTooYoung"
    ELSE IF DuplicateLimitReached(cfg, pbn, name) THEN "SkipDuplicateLimit"
    ELSE "Promote"

SkipCounted_AlsoTooYoung(decision) ==
    decision \in {"SkipFilter", "SkipInvalidDate", "SkipTooYoung",
                  "SkipDuplicateLimit"}

\* The skips that execute `total_skipped += 1` (lines 633, 639, 650, 676);
\* the too-young `continue` at line 665 does not.
SkipCounted(decision) ==
    decision \in {"SkipFilter", "SkipInvalidDate", "SkipDuplicateLimit"}

Item(product, decision) == [product |-> product, decision |-> decision]

\* Lines 622-677: one listing of the page up to the eligibility decision.
ProcessItem ==
    /\ pc = "items"
    /\ UNCHANGED calc
    /\ idx <= item_list.count
    /\ \E product \in Listings :
        /\ total_checked' = total_checked + 1
        /\ last_call' = NoCall
        /\ p_attempt' = 0
        /\ promo_calls' = 0
        /\ promo_succ' = 0
        /\ IF ~product.name_is_str
           THEN \* _normalize_name: .strip() of a value that is no string
                /\ RaiseTo(Handler("item_loop"))
                /\ last_item' = Item(product, "raised")
                /\ UNCHANGED <<idx, norm_name, total_skipped, too_young>>
           ELSE LET decision == Decide(config, product, promoted_by_name) IN
                /\ UNCHANGED <<cycle_end, abort_rest>>
                /\ last_item' = Item(product, decision)
                /\ too_young' =
                       too_young + (IF decision = "SkipTooYoung" THEN 1 ELSE 0)
                /\ IF decision = "Promote"
                   THEN /\ pc' = "lookup"
                        /\ norm_name' = _normalize_name(product.name)
                        /\ UNCHANGED <<idx, total_skipped>>
                   ELSE /\ total_skipped' =
                               total_skipped + (IF SkipCounted(decision) THEN 1 ELSE 0)
                        /\ NextItem
                        /\ norm_name' = None
    /\ UNCHANGED <<config, page_state, total_promoted, total_errors,
                   promoted_by_name, rate_limiter>>

\* Lines 684-696 and 722-729: acc.get_item_priority_statuses and the search
\* for the premium status.
GetPriorityStatuses ==
    /\ pc = "lookup"
    /\ UNCHANGED <<calc, too_young>>
    /\ last_item' = NoItem
    /\ \E outcome \in {"premium", "no_premium", "raise"} :
        /\ last_call' = Call("lookup", outcome, {})
        /\ IF outcome = "premium"
           THEN /\ pc' = "promote"
                /\ UNCHANGED <<idx, norm_name, total_skipped, total_errors,
                               cycle_end, abort_rest>>
           ELSE IF outcome = "no_premium"
           THEN /\ total_skipped' = total_skipped + 1
                /\ NextItem
                /\ norm_name' = None
                /\ UNCHANGED <<total_errors, cycle_end, abort_rest>>
           ELSE IF Handler("lookup") = "item_handler"
           THEN /\ total_errors' = total_errors + 1
                /\ NextItem
                /\ norm_name' = None
                /\ UNCHANGED <<total_skipped, cycle_end, abort_rest>>
           ELSE /\ RaiseTo(Handler("lookup"))
                /\ UNCHANGED <<idx, norm_name, total_skipped, total_errors>>
    /\ UNCHANGED <<config, page_state, promo_state, total_checked,
                   total_promoted, promoted_by_name, rate_limiter>>

PromoSucceeds_NoReturn ==
    /\ rate_limiter' = on_success(rate_limiter)
    /\ promo_succ' = promo_succ + 1
    /\ last_call' = Call("promotion", "ok", {})
    /\ p_attempt' = p_attempt + 1
    /\ pc' = IF p_attempt + 1 < max_retries THEN "promote" ELSE "promo_delay"
    /\ UNCHANGED <<idx, norm_name, total_promoted, promoted_by_name,
                   total_skipped, total_errors, cycle_end, abort_rest>>

\* Lines 498-499 and 707-715: the promotion call succeeded;
\* promote_product_with_retry returns (True, message) and the caller counts
\* the promotion and goes to the inter-promotion sleep.
PromoSucceeds ==
    /\ rate_limiter' = on_success(rate_limiter)
    /\ promo_succ' = promo_succ + 1
    /\ last_call' = Call("promotion", "ok", {})
    /\ total_promoted' = total_promoted + 1
    /\ promoted_by_name' = [promoted_by_name EXCEPT ![norm_name] = @ + 1]
    /\ pc' = "promo_delay"
    /\ UNCHANGED <<idx, norm_name, p_attempt, total_skipped, total_errors,
                   cycle_end, abort_rest>>

PromoReturnsFailure_CountsBoth(message) ==
    /\ total_skipped' = total_skipped + 1
    /\ total_errors' = total_errors + 1
    /\ NextItem
    /\ norm_name' = None
    /\ UNCHANGED <<total_promoted, promoted_by_name, cycle_end, abort_rest>>

\* Lines 716-721: the caller's count of a (False, message) result.
PromoReturnsFailure(message) ==
    /\ IF FailureIsSkip(message)
       THEN /\ total_skipped' = total_skipped + 1
            /\ total_errors' = total_errors
       ELSE /\ total_errors' = total_errors + 1
            /\ total_skipped' = total_skipped
    /\ NextItem
    /\ norm_name' = None
    /\ UNCHANGED <<total_promoted, promoted_by_name, cycle_end, abort_rest>>

\* Lines 501-532: the promotion call raised an exception with message msg.
PromoRaises(msg) ==
    /\ promo_succ' = promo_succ
    /\ IF Handler("promotion") # "promote_handler"
       THEN /\ RaiseTo(Handler("promotion"))
            /\ last_call' = Call("promotion", "raised", msg)
            /\ UNCHANGED <<idx, norm_name, p_attempt, rate_limiter,
                           total_promoted, total_skipped, total_errors,
                           promoted_by_name>>
       ELSE IF IsRateLimitedPromo(msg)
       THEN /\ rate_limiter' = on_error(rate_limiter)
            /\ last_call' = Call("promotion", "raised", msg)
            /\ p_attempt' = p_attempt
            /\ IF PromoRetryAllowed(p_attempt)
               THEN /\ pc' = "promo_backoff"
                    /\ UNCHANGED <<idx, norm_name, total_promoted,
                                   total_skipped, total_errors,
                                   promoted_by_name, cycle_end, abort_rest>>
               ELSE PromoReturnsFailure(ExhaustedMessage)
       ELSE /\ rate_limiter' = rate_limiter
            /\ last_call' = Call("promotion", "raised", msg)
            /\ p_attempt' = p_attempt
            /\ PromoReturnsFailure(OtherErrorMessage(msg))

\* Lines 488-532 and 697-721: one publish_item / increase_item_priority_status
\* call of promote_product_with_retry.
PromoteCall ==
    /\ pc = "promote"
    /\ UNCHANGED <<calc, too_young>>
    /\ last_item' = NoItem
    /\ promo_calls' = promo_calls + 1
    /\ \/ PromoSucceeds
       \/ \E msg \in ErrorMessages : PromoRaises(msg)
    /\ UNCHANGED <<config, page_state, total_checked>>

\* Lines 516-523: the countdown sleep of promote_product_with_retry, then
\* `continue`.  Line 534 follows a loop that ran out.
PromoBackoff ==
    /\ pc = "promo_backoff"
    /\ UNCHANGED <<calc, too_young>>
    /\ last_item' = NoItem
    /\ p_attempt' = p_attempt + 1
    /\ last_call' = NoCall
    /\ IF p_attempt + 1 < max_retries
       THEN /\ pc' = "promote"
            /\ UNCHANGED <<idx, norm_name, counters, cycle_end, abort_rest>>
       ELSE /\ PromoReturnsFailure(UnknownErrorMessage)
            /\ total_checked' = total_checked
    /\ UNCHANGED <<config, page_state, promo_calls, promo_succ, rate_limiter>>

\* Lines 713-715: the sleep between promotions, then the next listing.
PromoDelay ==
    /\ pc = "promo_delay"
    /\ UNCHANGED <<calc, too_young>>
    /\ last_item' = NoItem
    /\ NextItem
    /\ norm_name' = None
    /\ last_call' = NoCall
    /\ UNCHANGED <<config, page_state, promo_state, counters, rate_limiter,
                   cycle_end, abort_rest>>

EndOfPage_KeepsCursor ==
    /\ pc = "items"
    /\ UNCHANGED <<calc, too_young>>
    /\ last_item' = NoItem
    /\ idx > item_list.count
    /\ last_call' = NoCall
    /\ p_attempt' = 0
    /\ promo_calls' = 0
    /\ promo_succ' = 0
    /\ IF ~item_list.has_next_page
       THEN /\ pc' = "reporting"
            /\ cycle_end' = "complete"
       ELSE IF config.pages_delay
       THEN /\ pc' = "page_delay"
            /\ UNCHANGED cycle_end
       ELSE /\ pc' = "fetch"
            /\ UNCHANGED cycle_end
    /\ UNCHANGED <<config, cursor, item_list, idx, norm_name, attempt,
                   counters, rate_limiter, page_calls, pages_fetched,
                   fetched_listings, abort_rest>>

\* Lines 731-739: the page is exhausted.
EndOfPage ==
    /\ pc = "items"
    /\ UNCHANGED <<calc, too_young>>
    /\ last_item' = NoItem
    /\ idx > item_list.count
    /\ last_call' = NoCall
    /\ p_attempt' = 0
    /\ promo_calls' = 0
    /\ promo_succ' = 0
    /\ IF ~item_list.has_next_page
       THEN /\ pc' = "reporting"
            /\ cycle_end' = "complete"
            /\ UNCHANGED cursor
       ELSE IF config.pages_delay
       THEN /\ pc' = "page_delay"
            /\ UNCHANGED <<cursor, cycle_end>>
       ELSE /\ pc' = "fetch"
            /\ cursor' = item_list.end_cursor
            /\ UNCHANGED cycle_end
    /\ UNCHANGED <<config, item_list, idx, norm_name, attempt, counters,
                   rate_limiter, page_calls, pages_fetched, fetched_listings,
                   abort_rest>>

\* Lines 736-739: the sleep between pages, then the cursor moves on.
PageDelay ==
    /\ pc = "page_delay"
    /\ UNCHANGED <<calc, too_young>>
    /\ last_item' = NoItem
    /\ pc' = "fetch"
    /\ cursor' = item_list.end_cursor
    /\ last_call' = NoCall
    /\ UNCHANGED <<config, item_list, idx, norm_name, attempt, promo_state,
                   counters, rate_limiter, cycle_end, page_calls,
                   pages_fetched, fetched_listings, abort_rest>>

\* Lines 598-600, 608-610, 617-619, 744: the summary is printed and
\* check_and_update_products returns to main.
Report ==
    /\ pc = "reporting"
    /\ UNCHANGED <<calc, too_young>>
    /\ last_item' = NoItem
    /\ pc' = "main_sleep"
    /\ last_call' = NoCall
    /\ UNCHANGED <<config, cursor, item_list, idx, norm_name, attempt,
                   promo_state, counters, rate_limiter, cycle_end, page_calls,
                   pages_fetched, fetched_listings, abort_rest>>

NextCycle_KeepsLimiter ==
    /\ pc = "main_sleep"
    /\ UNCHANGED calc
    /\ pc' = "fetch"
    /\ config' = config
    /\ cursor' = None
    /\ total_checked' = 0
    /\ total_promoted' = 0
    /\ total_skipped' = 0
    /\ total_errors' = 0
    /\ promoted_by_name' = [n \in NormNames |-> 0]
    /\ rate_limiter' = rate_limiter
    /\ item_list' = NoPage
    /\ idx' = 0
    /\ norm_name' = None
    /\ attempt' = 0
    /\ p_attempt' = 0
    /\ last_call' = NoCall
    /\ cycle_end' = "running"
    /\ page_calls' = 0
    /\ promo_calls' = 0
    /\ promo_succ' = 0
    /\ pages_fetched' = 0
    /\ fetched_listings' = 0
    /\ abort_rest' = 0
    /\ last_item' = NoItem
    /\ too_young' = 0

\* Lines 454-470 and 539-549: main sleeps the inter-cycle delay and calls
\* check_and_update_products again.
NextCycle ==
    /\ pc = "main_sleep"
    /\ UNCHANGED calc
    /\ pc' = "fetch"
    /\ config' = config
    /\ cursor' = None
    /\ total_checked' = 0
    /\ total_promoted' = 0
    /\ total_skipped' = 0
    /\ total_errors' = 0
    /\ promoted_by_name' = [n \in NormNames |-> 0]
    /\ rate_limiter' = RateLimiterInit
    /\ item_list' = NoPage
    /\ idx' = 0
    /\ norm_name' = None
    /\ attempt' = 0
    /\ p_attempt' = 0
    /\ last_call' = NoCall
    /\ cycle_end' = "running"
    /\ page_calls' = 0
    /\ promo_calls' = 0
    /\ promo_succ' = 0
    /\ pages_fetched' = 0
    /\ fetched_listings' = 0
    /\ abort_rest' = 0
    /\ last_item' = NoItem
    /\ too_young' = 0

Next ==
    \/ GetItems
    \/ PageBackoff
    \/ ProcessItem
    \/ GetPriorityStatuses
    \/ PromoteCall
    \/ PromoBackoff
    \/ PromoDelay
    \/ EndOfPage
    \/ PageDelay
    \/ Report
    \/ NextCycle

Spec == Init /\ [][Next]_vars

----------------------------------------------------------------------------
(* RateLimiter on its own: on_error, on_success and calculate_wait_time(429) *)
(* applied in any order, the jitter drawn by random.randint(0, 10).  calc   *)
(* keeps the inputs and the result of the last call and of the one before.  *)
(* calculate_wait_time assigns no attribute of the RateLimiter.             *)

InitWait ==
    /\ pc = "rate_limiter"
    /\ config = ConfigOf({}, {}, -1, FALSE)
    /\ CycleLocals
    /\ calc = NoCalc

cycle_vars == <<pc, config, cursor, item_list, idx, norm_name, attempt,
                p_attempt, total_checked, total_promoted, total_skipped,
                total_errors, promoted_by_name, last_call, cycle_end,
                page_calls, promo_calls, promo_succ, pages_fetched,
                fetched_listings, abort_rest, last_item, too_young>>

WaitOnError ==
    /\ pc = "rate_limiter"
    /\ rate_limiter.consecutive_errors < MaxErrors
    /\ rate_limiter' = on_error(rate_limiter)
    /\ UNCHANGED <<cycle_vars, calc>>

WaitOnSuccess ==
    /\ pc = "rate_limiter"
    /\ rate_limiter' = on_success(rate_limiter)
    /\ UNCHANGED <<cycle_vars, calc>>

WaitCalculate ==
    /\ pc = "rate_limiter"
    /\ \E j \in Jitter :
        calc' = [c |-> rate_limiter.consecutive_errors,
                 jitter |-> j,
                 wait |-> calculate_wait_time_429(rate_limiter, j),
                 prev_c |-> calc.c,
                 prev_jitter |-> calc.jitter,
                 prev_wait |-> calc.wait]
    /\ UNCHANGED <<cycle_vars, rate_limiter>>

NextWait ==
    \/ WaitOnError
    \/ WaitOnSuccess
    \/ WaitCalculate

SpecWait == InitWait /\ [][NextWait]_vars

----------------------------------------------------------------------------
(* The scheduler loop under an external interrupt (Ctrl-C): Python raises   *)
(* KeyboardInterrupt at the statement being executed, a remote call or a    *)
(* time.sleep.  last_call records where it was raised.                      *)

InitInterrupt ==
    /\ pc = "fetch"
    /\ calc = NoCalc
    /\ config = ConfigOf({<<"g">>}, {}, 1, TRUE)
    /\ CycleLocals

\* The `except Exception` clauses enclosing each position, innermost first:
\* lines 563 (page fetch), 501 (promotion call), 727 (per listing) and 741
\* (the cycle).  A sleep inside an except block is outside that block's try.
EnclosingHandlers(p) ==
    CASE p = "fetch" -> <<"page_handler", "cycle_handler">>
      [] p = "page_backoff" -> <<"cycle_handler">>
      [] p = "items" -> <<"cycle_handler">>
      [] p = "lookup" -> <<"item_handler", "cycle_handler">>
      [] p = "promote" -> <<"promote_handler", "item_handler", "cycle_handler">>
      [] p = "promo_backoff" -> <<"item_handler", "cycle_handler">>
      [] p = "promo_delay" -> <<"item_handler", "cycle_handler">>
      [] p = "page_delay" -> <<"cycle_handler">>
      [] OTHER -> <<>>

ExceptException_Bare(kind) == TRUE

\* `except Exception` matches the subclasses of Exception; KeyboardInterrupt
\* derives from BaseException.
ExceptException(kind) == kind = "Exception"

\* The handler an exception of this kind raised at p arrives at; past the
\* cycle's handlers it is `except KeyboardInterrupt` of lines 750-752.
CaughtBy(p, kind) ==
    LET hs == EnclosingHandlers(p) IN
    IF hs # <<>> /\ ExceptException(kind) THEN Head(hs) ELSE "main_handler"

\* Lines 747-752: KeyboardInterrupt leaves main() and safe_exit(0) ends the
\* process.  The other branches are what each cycle handler does with an
\* exception it catches (lines 600-608, 532 and 718-721, 727-729, 741-742).
Interrupt ==
    /\ pc \notin {"exited", "crashed", "rate_limiter"}
    /\ last_call' = Call("interrupt", pc, {})
    /\ last_item' = NoItem
    /\ UNCHANGED <<calc, too_young, config, page_state, promo_state, rate_limiter,
                   norm_name, total_checked, total_promoted, total_skipped,
                   promoted_by_name>>
    /\ LET h == CaughtBy(pc, "KeyboardInterrupt") IN
       CASE h = "main_handler" ->
              /\ pc' = "exited"
              /\ UNCHANGED <<idx, total_errors, cycle_end, abort_rest>>
         [] h = "page_handler" ->
              /\ pc' = "reporting"
              /\ total_errors' = total_errors + 1
              /\ cycle_end' = "fetch_error"
              /\ UNCHANGED <<idx, abort_rest>>
         [] h \in {"promote_handler", "item_handler"} ->
              /\ total_errors' = total_errors + 1
              /\ NextItem
              /\ UNCHANGED <<cycle_end, abort_rest>>
         [] h = "cycle_handler" ->
              /\ RaiseTo(h)
              /\ UNCHANGED <<idx, total_errors>>

NextInterrupt ==
    \/ Next
    \/ Interrupt

SpecInterrupt == InitInterrupt /\ [][NextInterrupt]_vars

----------------------------------------------------------------------------
(* Properties *)

G == <<"g">>

\* The throttling signals of the two call sites, as the error carries them.
PromoThrottlingSignal(msg) == M429 \in msg \/ MTooManyRequests \in msg

PageThrottlingSignal(msg) ==
    M429 \in msg \/ MTooManyRequests \in msg \/ MTooManyAttempts \in msg

AtCycleEnd == pc \in {"reporting", "main_sleep"}

FetchFailed == cycle_end \in {"fetch_throttled", "fetch_error", "fetch_none"}

\* C1: with a duplicate limit K >= 0, no normalized name has more than K
\* successful promotions counted in promoted_by_name, in any state of a cycle.
C1_DuplicateLimit ==
    config.duplicates_limit >= 0 =>
        \A n \in NormNames : promoted_by_name[n] <= config.duplicates_limit

\* The limit of 2 is reached for one name and a further listing was skipped.
C1_Witness ==
    /\ config.duplicates_limit = 2
    /\ promoted_by_name[G] = 2
    /\ total_checked = 4
    /\ total_skipped = 2

\* C2: for one listing occurrence at most one promotion call succeeds, and
\* after a success promote_product_with_retry has returned: the control is
\* never again at a promotion call or a backoff of that occurrence.
C2_SinglePromotion ==
    /\ promo_succ <= 1
    /\ promo_succ = 1 => pc \in {"promo_delay", "items"}

\* A promotion that succeeded on its third call, after two throttled ones.
C2_Witness ==
    /\ promo_succ = 1
    /\ promo_calls = 3
    /\ pc = "promo_delay"

\* C3: one invocation of promote_product_with_retry issues at most
\* max_retries promotion calls; a backoff sleep is entered only while a
\* further attempt remains, and after the max_retries-th throttled call the
\* function has returned Failure to the item loop.
C3_RetryBudget ==
    /\ promo_calls <= max_retries
    /\ pc = "promo_backoff" => promo_calls < max_retries
    /\ (/\ last_call.call = "promotion"
        /\ last_call.result = "raised"
        /\ PromoThrottlingSignal(last_call.msg)
        /\ promo_calls = max_retries)
       => (pc = "items" /\ promo_succ = 0)

\* The third promotion call of a listing has just been throttled.
C3_Witness ==
    /\ last_call.call = "promotion"
    /\ last_call.result = "raised"
    /\ M429 \in last_call.msg
    /\ promo_calls = 3
    /\ rate_limiter.consecutive_errors = 3

\* C4: a promotion call that fails with an error carrying no throttling
\* signal makes promote_product_with_retry return Failure in the same step:
\* the item loop moves to the next listing, no backoff is entered, nothing
\* is promoted and the rate limiter is left as it was, on every attempt.
C4_NonThrottlingFailure ==
    [][(/\ pc = "promote"
        /\ last_call'.call = "promotion"
        /\ last_call'.result = "raised"
        /\ ~PromoThrottlingSignal(last_call'.msg))
       => (/\ pc' = "items"
           /\ idx' = idx + 1
           /\ promo_calls' = promo_calls + 1
           /\ promo_succ' = 0
           /\ rate_limiter' = rate_limiter
           /\ total_promoted' = total_promoted
           /\ promoted_by_name' = promoted_by_name
           /\ total_skipped' + total_errors' = total_skipped + total_errors + 1)]_vars

\* A non-throttling failure on the third attempt, after two throttled ones.
C4_Witness ==
    /\ last_call.call = "promotion"
    /\ last_call.result = "raised"
    /\ last_call.msg = {MTooManyAttempts}
    /\ promo_calls = 3
    /\ rate_limiter.consecutive_errors = 2
    /\ pc = "items"

\* C5: no exception leaves check_and_update_products: the control never
\* reaches the crashed position, every cycle that reports returns to main's
\* sleep, and main's sleep is followed by a fresh cycle.
C5_NoExceptionEscapes ==
    /\ [](pc # "crashed")
    /\ [][pc = "reporting" => pc' = "main_sleep"]_vars
    /\ [][pc = "main_sleep" =>
            (pc' = "fetch" /\ cycle_end' = "running" /\ total_checked' = 0)]_vars

\* A cycle with a failed offer lookup and a failed page fetch is back in main.
C5_Witness ==
    /\ pc = "main_sleep"
    /\ cycle_end = "fetch_throttled"
    /\ total_errors = 2

\* C6: an exception that reaches the outermost handler of the cycle adds one
\* to the errored counter.
C6_OuterHandlerCounts ==
    [][(cycle_end = "running" /\ cycle_end' = "exception")
       => total_errors' = total_errors + 1]_vars

\* C7 as stated: at the end of every cycle the outcome counters sum to at
\* most total_checked.
C7_Original ==
    AtCycleEnd => total_promoted + total_skipped + total_errors <= total_checked

\* C7 amended: at the end of every cycle the outcome counters sum to at most
\* total_checked, plus one when the cycle was aborted by a page-fetch failure.
C7_OutcomesBounded ==
    AtCycleEnd =>
        total_promoted + total_skipped + total_errors
            <= total_checked + (IF FetchFailed THEN 1 ELSE 0)

\* A cycle aborted by a failed fetch of its second page, every listing of
\* the first page having an outcome.
C7_Witness ==
    /\ pc = "reporting"
    /\ cycle_end = "fetch_error"
    /\ total_checked = 2
    /\ total_promoted + total_skipped + total_errors = 3

\* C8 as stated: at the end of every cycle total_checked is the number of
\* listings of the successfully fetched pages.
C8_Original == AtCycleEnd => total_checked = fetched_listings

\* C8 amended: at the end of every cycle total_checked is the number of
\* listings of the successfully fetched pages, less the listings that follow
\* the one at which an exception reached the outermost handler, if any.
C8_CheckedCount ==
    AtCycleEnd =>
        /\ cycle_end # "exception" => total_checked = fetched_listings
        /\ cycle_end = "exception" =>
               total_checked = fetched_listings - abort_rest

\* A cycle that fetched a full page and then failed to fetch the next one.
C8_Witness ==
    /\ pc = "reporting"
    /\ cycle_end = "fetch_throttled"
    /\ pages_fetched = 1
    /\ total_checked = 2

\* C9: right after a get_items call that failed without a throttling signal
\* the cycle is in Reporting with errored >= 1 and the fetch was not retried;
\* from Reporting the cycle only returns to main, issuing no remote call.
C9_FetchErrorEndsCycle ==
    /\ []((/\ last_call.call = "get_items"
           /\ last_call.result = "raised"
           /\ ~PageThrottlingSignal(last_call.msg))
          => (/\ pc = "reporting"
              /\ cycle_end = "fetch_error"
              /\ total_errors >= 1))
    /\ [][pc = "reporting" => (pc' = "main_sleep" /\ last_call' = NoCall)]_vars

\* The fetch of the second page failed with a plain error.
C9_Witness ==
    /\ last_call.call = "get_items"
    /\ last_call.result = "raised"
    /\ last_call.msg = {}
    /\ pages_fetched = 1
    /\ total_promoted = 1

\* C10: a page whose fetch is throttled on every attempt gets exactly
\* page_max_retries get_items calls; the throttled calls and the backoffs
\* between them leave checked, promoted, skipped and the per-name counts
\* unchanged, and errored grows by one, at the last call only, which ends
\* the cycle.
C10_ThrottledPage ==
    /\ [](cycle_end = "fetch_throttled" =>
            (AtCycleEnd /\ page_calls = page_max_retries))
    /\ [][(/\ pc = "fetch"
           /\ last_call'.call = "get_items"
           /\ last_call'.result = "raised"
           /\ PageThrottlingSignal(last_call'.msg))
          => (/\ UNCHANGED <<total_checked, total_promoted, total_skipped,
                            promoted_by_name>>
              /\ page_calls' = page_calls + 1
              /\ IF page_calls' = page_max_retries
                 THEN /\ total_errors' = total_errors + 1
                      /\ pc' = "reporting"
                      /\ cycle_end' = "fetch_throttled"
                 ELSE /\ total_errors' = total_errors
                      /\ pc' = "page_backoff")]_vars
    /\ [][pc = "page_backoff" => (pc' = "fetch" /\ UNCHANGED counters)]_vars

\* The second page was throttled five times after a promotion on the first.
C10_Witness ==
    /\ pc = "reporting"
    /\ cycle_end = "fetch_throttled"
    /\ pages_fetched = 1
    /\ total_promoted = 1
    /\ total_errors = 1

\* C11 as stated: of two calculate_wait_time(429) calls, the one made at
\* the lower consecutive-error count never returns the longer wait,
\* whatever jitter each call draws, and no wait exceeds 120 seconds.
C11_Original ==
    /\ calc.c >= 0 => calc.wait <= 120
    /\ (calc.prev_c >= 0 /\ calc.prev_c <= calc.c)
       => calc.prev_wait <= calc.wait
    /\ (calc.prev_c >= 0 /\ calc.c <= calc.prev_c)
       => calc.wait <= calc.prev_wait

\* C11 amended: of two calls that draw the same jitter, the one made at the
\* lower consecutive-error count never returns the longer wait; with
\* different jitters it returns at most 10 seconds more; no wait exceeds 120.
C11_BackoffMonotone ==
    /\ calc.c >= 0 => calc.wait <= 120
    /\ (calc.prev_c >= 0 /\ calc.prev_c <= calc.c)
       => /\ calc.prev_jitter = calc.jitter => calc.prev_wait <= calc.wait
          /\ calc.prev_wait <= calc.wait + 10
    /\ (calc.prev_c >= 0 /\ calc.c <= calc.prev_c)
       => /\ calc.prev_jitter = calc.jitter => calc.wait <= calc.prev_wait
          /\ calc.wait <= calc.prev_wait + 10

\* Two calls with the same jitter, below and at the cap.
C11_Witness ==
    /\ calc.prev_c = 4
    /\ calc.c = 6
    /\ calc.prev_jitter = 3
    /\ calc.jitter = 3
    /\ calc.prev_wait = 83
    /\ calc.wait = 120

\* C12: every wait returned by calculate_wait_time(429) is
\* min(5 * 2^min(c, 5) + jitter, 120) for an integer jitter in 0..9, and the
\* call leaves the RateLimiter as it was.
C12_WaitFormula ==
    /\ [](calc.c >= 0 =>
            \E j \in 0..9 :
                calc.wait = Min(5 * (2 ^ Min(calc.c, 5)) + j, 120))
    /\ [][calc' # calc => rate_limiter' = rate_limiter]_vars

\* The previous step read a listing whose name is a string.
ItemDecided == last_item.decision \notin {"none", "raised"}

\* This step is the item loop taking the next listing of the page.
ItemStep == pc = "items" /\ total_checked' = total_checked + 1

\* The name filter as the configuration documents it: with a non-empty
\* include set only its names pass, otherwise the names of the exclude set
\* are rejected.
NameRejected(cfg, product) ==
    LET n == _normalize_name(product.name) IN
    IF cfg.include_names # {}
    THEN n \notin cfg.include_names
    ELSE n \in cfg.exclude_names

OldEnough(cfg, product) ==
    product.date_ok /\ product.times_passed_sec > cfg.promo_threshold_sec

\* The step went on to the next listing without a remote call.
MovedOnWithoutCall ==
    /\ pc' = "items"
    /\ idx' = idx + 1
    /\ last_call' = NoCall

\* C13: a listing is skipped by the name filter exactly when, the include
\* set being non-empty, its normalized name is not in it (the exclude set
\* is then ignored), or, the include set being empty, its normalized name
\* is in the exclude set.
C13_IncludePrecedence ==
    ItemDecided =>
        LET n == _normalize_name(last_item.product.name) IN
        IF config.include_names # {}
        THEN (last_item.decision # "SkipFilter") <=> (n \in config.include_names)
        ELSE (last_item.decision = "SkipFilter") <=> (n \in config.exclude_names)

\* A name with a leading space that is in both sets is kept.
C13_Witness ==
    /\ last_item.decision = "Promote"
    /\ last_item.product.name = <<" ", "g">>
    /\ config.include_names = {G}
    /\ config.exclude_names = {G}

\* C14 as stated: a listing whose elapsed time is at most the threshold
\* changes only total_checked and causes no remote call.
C14_Original ==
    [][(/\ ItemStep
        /\ last_item'.product.date_ok
        /\ last_item'.product.times_passed_sec <= config.promo_threshold_sec)
       => (/\ MovedOnWithoutCall
           /\ UNCHANGED <<total_promoted, total_skipped, total_errors,
                          promoted_by_name>>)]_vars

\* C14 amended: a listing that passes the name filter and whose elapsed
\* time is at most the threshold changes only total_checked and causes no
\* remote call.
C14_TooYoungFrame ==
    [][(/\ ItemStep
        /\ last_item'.product.name_is_str
        /\ ~NameRejected(config, last_item'.product)
        /\ last_item'.product.date_ok
        /\ last_item'.product.times_passed_sec <= config.promo_threshold_sec)
       => (/\ MovedOnWithoutCall
           /\ UNCHANGED <<total_promoted, total_skipped, total_errors,
                          promoted_by_name>>)]_vars

\* A listing exactly as old as the threshold was read as the second of the
\* cycle, and nothing but total_checked has moved.
C14_Witness ==
    /\ last_item.decision = "SkipTooYoung"
    /\ last_item.product.times_passed_sec = 1800
    /\ total_checked = 2
    /\ total_skipped = 0
    /\ total_promoted = 0
    /\ total_errors = 0

\* C15: a listing rejected by the name filter adds one to skipped and
\* causes no remote call, whatever its approval date and whatever the
\* duplicate counts.
C15_NameFilterFirst ==
    [][(/\ ItemStep
        /\ last_item'.product.name_is_str
        /\ NameRejected(config, last_item'.product))
       => (/\ MovedOnWithoutCall
           /\ total_skipped' = total_skipped + 1
           /\ UNCHANGED <<total_promoted, total_errors, promoted_by_name>>)]_vars

\* A too-young listing was rejected by the name filter and counted as skipped.
C15_Witness ==
    /\ last_item.decision = "SkipFilter"
    /\ last_item.product.date_ok
    /\ last_item.product.times_passed_sec = 1799
    /\ total_skipped = 1

\* C16: with a limit K >= 0, a listing that passes the name filter and is
\* old enough, read when K promotions of its normalized name are counted,
\* adds one to skipped, leaves promoted as it was and causes no remote call.
C16_SkipAtLimit ==
    [][(/\ ItemStep
        /\ last_item'.product.name_is_str
        /\ ~NameRejected(config, last_item'.product)
        /\ OldEnough(config, last_item'.product)
        /\ config.duplicates_limit >= 0
        /\ promoted_by_name[_normalize_name(last_item'.product.name)]
               >= config.duplicates_limit)
       => (/\ MovedOnWithoutCall
           /\ total_skipped' = total_skipped + 1
           /\ UNCHANGED <<total_promoted, total_errors, promoted_by_name>>)]_vars

\* Limit 1: "G" was promoted, then " g" was skipped at the limit.
C16_Witness ==
    /\ config.duplicates_limit = 1
    /\ promoted_by_name[G] = 1
    /\ total_promoted = 1
    /\ last_item.decision = "SkipDuplicateLimit"
    /\ last_item.product.name = <<" ", "g">>

\* C17: whenever promote_product_with_retry returns Success, the rate
\* limiter's consecutive-error count is 0 and its last-error timestamp is
\* cleared, however many throttling failures came before.
C17_SuccessResetsLimiter ==
    last_call = Call("promotion", "ok", {}) =>
        /\ rate_limiter.consecutive_errors = 0
        /\ rate_limiter.last_error_time = None

\* The third attempt of a promotion succeeded after two failed ones.
C17_Witness ==
    /\ last_call = Call("promotion", "ok", {})
    /\ promo_calls = 3
    /\ promo_succ = 1
    /\ rate_limiter.consecutive_errors = 0

\* This step is a promotion call that makes promote_product_with_retry
\* return Failure.
PromoFailureStep ==
    /\ pc = "promote"
    /\ last_call'.call = "promotion"
    /\ last_call'.result = "raised"
    /\ pc' # "promo_backoff"

\* C19: when promote_product_with_retry returns Failure, exactly one counter
\* grows by one: skipped if the retry budget ran out on throttling, errored
\* for any other error; promoted and the per-name counts stay and the
\* inter-promotion delay is not slept.
C19_FailureCounts ==
    [][PromoFailureStep
       => (/\ IF PromoThrottlingSignal(last_call'.msg)
              THEN /\ total_skipped' = total_skipped + 1
                   /\ total_errors' = total_errors
              ELSE /\ total_errors' = total_errors + 1
                   /\ total_skipped' = total_skipped
           /\ UNCHANGED <<total_promoted, promoted_by_name>>
           /\ pc' = "items")]_vars

\* The lookup of this step raised an exception.
LookupRaisedStep ==
    /\ pc = "lookup"
    /\ last_call' = Call("lookup", "raise", {})

\* C20: an exception raised by get_item_priority_statuses adds one to
\* errored, is followed by no promotion call for that listing and does not
\* end the cycle: the item loop goes on with the next listing of the page.
C20_LookupErrorIsLocal ==
    [][LookupRaisedStep
       => (/\ total_errors' = total_errors + 1
           /\ pc' = "items"
           /\ idx' = idx + 1
           /\ UNCHANGED <<item_list, cursor, cycle_end, abort_rest,
                          promo_calls, total_checked, total_promoted,
                          total_skipped, promoted_by_name>>)]_vars

\* The lookup of the first listing raised and the second listing of the
\* page is next.
C20_Witness ==
    /\ last_call = Call("lookup", "raise", {})
    /\ pc = "items"
    /\ total_errors = 1
    /\ idx = 2
    /\ item_list.count = 2
    /\ cycle_end = "running"

\* C18: an interrupt arriving at any point of the scheduler loop is not
\* absorbed by a handler of the cycle: the step that raises it takes the
\* process to its exit path with every counter as it was, and nothing (no
\* remote call, no sleep) follows.
C18_InterruptExits ==
    /\ [][last_call'.call = "interrupt"
          => (/\ pc' = "exited"
              /\ UNCHANGED <<counters, rate_limiter, page_calls, promo_calls,
                             promo_succ, cycle_end>>)]_vars
    /\ [][pc # "exited"]_vars

\* The interrupt arrived in the backoff countdown of a promotion, in the
\* second page of the cycle; the counters keep the skip and the error
\* counted before it.
C18_Witness ==
    /\ pc = "exited"
    /\ last_call = Call("interrupt", "promo_backoff", {})
    /\ pages_fetched = 2
    /\ total_skipped = 1
    /\ total_errors = 1
    /\ total_checked = 3
    /\ promo_calls = 1

\* C21: pagination follows the page chain.  The first get_items call of a
\* cycle uses a null cursor; every later call uses the end cursor of the
\* page fetched before it, a page that reported a next page and whose
\* listings have all been processed; a page whose listings are exhausted
\* leads to the summary exactly when it reports no next page; and a
\* throttled retry calls with the cursor of the failed call.
C21_PageChain ==
    /\ [](pc = "fetch" =>
            IF pages_fetched = 0
            THEN cursor = None
            ELSE /\ item_list.has_next_page
                 /\ cursor = item_list.end_cursor
                 /\ idx > item_list.count)
    /\ [][(pc = "items" /\ idx > item_list.count)
          => ((pc' = "reporting") <=> ~item_list.has_next_page)]_vars
    /\ [][(pc \in {"fetch", "page_backoff"}
           /\ pc' \in {"fetch", "page_backoff"})
          => cursor' = cursor]_vars

\* The second page is being fetched again, after a throttled attempt, with
\* the end cursor of the first page, whose two listings were all checked.
C21_Witness ==
    /\ pc = "fetch"
    /\ pages_fetched = 1
    /\ page_calls = 1
    /\ attempt = 1
    /\ cursor = "c1"
    /\ item_list.end_cursor = "c1"
    /\ total_checked = 2

\* A get_items call, or a promotion call, of this step raised an exception.
CallRaisedStep(site) ==
    /\ last_call'.call = site
    /\ last_call'.result = "raised"

\* The handler of this step treated the exception as throttling: it
\* reported an error to the rate limiter.
TreatedAsThrottling ==
    rate_limiter'.consecutive_errors = rate_limiter.consecutive_errors + 1

\* C22: the page fetch and the promotion call classify errors alike: an
\* error raised by get_items is treated as throttling exactly when
\* promote_product_with_retry classifies that error as throttling, and an
\* error raised by a promotion call exactly when the page fetch does.
C22_SameClassification ==
    /\ [][(pc = "fetch" /\ CallRaisedStep("get_items"))
          => (TreatedAsThrottling <=> IsRateLimitedPromo(last_call'.msg))]_vars
    /\ [][(pc = "promote" /\ CallRaisedStep("promotion"))
          => (TreatedAsThrottling <=> IsRateLimitedPage(last_call'.msg))]_vars

\* The previous step was a remote call that succeeded.
RemoteCallSucceeded ==
    \/ last_call = Call("get_items", "ok", {})
    \/ last_call = Call("lookup", "premium", {})
    \/ last_call = Call("lookup", "no_premium", {})
    \/ last_call = Call("promotion", "ok", {})

\* C23: the rate limiter hears of every remote call: right after a remote
\* call that succeeded (get_items, get_item_priority_statuses, promotion)
\* its consecutive-error count is 0, and a failure classified as throttling
\* adds exactly one to it.
C23_FeedbackFromEveryCall ==
    /\ [](RemoteCallSucceeded => rate_limiter.consecutive_errors = 0)
    /\ [][((pc = "fetch" /\ CallRaisedStep("get_items")
                /\ IsRateLimitedPage(last_call'.msg))
           \/ (pc = "promote" /\ CallRaisedStep("promotion")
                /\ IsRateLimitedPromo(last_call'.msg)))
          => TreatedAsThrottling]_vars

\* Between two listings: no listing is waiting for its lookup or for the
\* result of its promotion.
ListingBoundary == pc \notin {"lookup", "promote", "promo_backoff"}

OutcomeSum == total_promoted + total_skipped + total_errors

\* C24: every listing taken from a fetched page ends in exactly one
\* outcome.  At every listing boundary of a cycle in which no exception
\* reached the outermost handler, total_checked = promoted + skipped +
\* (errored less the page-fetch error) + too-young listings; total_checked
\* grows only by one, with a listing taken from the page, and no step adds
\* more than one to promoted + skipped + errored.
C24_OneOutcomePerListing ==
    /\ []((ListingBoundary /\ cycle_end # "exception" /\ pc # "crashed")
          => total_checked
               = OutcomeSum - (IF FetchFailed THEN 1 ELSE 0) + too_young)
    /\ [][pc # "main_sleep"
          => (/\ total_checked' \in {total_checked, total_checked + 1}
              /\ total_checked' # total_checked => pc = "items"
              /\ total_promoted' >= total_promoted
              /\ total_skipped' >= total_skipped
              /\ total_errors' >= total_errors
              /\ too_young' >= too_young
              /\ OutcomeSum' + too_young' <= OutcomeSum + too_young + 1)]_vars

\* A cycle that ended with one listing in each outcome and one too young.
C24_Witness ==
    /\ pc = "reporting"
    /\ cycle_end = "complete"
    /\ total_checked = 4
    /\ total_promoted = 1
    /\ total_skipped = 1
    /\ total_errors = 1
    /\ too_young = 1

\* The first get_items call of a cycle is about to be made.
CycleStart == pc = "fetch" /\ pages_fetched = 0 /\ page_calls = 0

\* This step is a get_items or promotion call that succeeded.
FeedingCallSucceeded ==
    \/ last_call' = Call("get_items", "ok", {})
    \/ last_call' = Call("promotion", "ok", {})

\* This step is a get_items or promotion call that failed with the
\* throttling signal of its call site.
FeedingCallThrottled ==
    \/ pc = "fetch" /\ CallRaisedStep("get_items")
          /\ PageThrottlingSignal(last_call'.msg)
    \/ pc = "promote" /\ CallRaisedStep("promotion")
          /\ PromoThrottlingSignal(last_call'.msg)

\* C25: the consecutive-error count is 0 at the start of every cycle and
\* counts the throttled get_items and promotion calls since the last
\* successful one of the cycle: a successful call sets it to 0, a throttled
\* call adds one, and no other step of the cycle (a promotion giving up, a
\* non-throttling failure, a lookup, a skip, a sleep, a new page) changes it.
C25_SharedEscalation ==
    /\ [](CycleStart => rate_limiter.consecutive_errors = 0)
    /\ [][(pc \in {"fetch", "promote"} /\ FeedingCallSucceeded)
          => (rate_limiter'.consecutive_errors = 0)]_vars
    /\ [][FeedingCallThrottled => TreatedAsThrottling]_vars
    /\ [][(/\ pc # "main_sleep"
           /\ ~(pc \in {"fetch", "promote"} /\ FeedingCallSucceeded)
           /\ ~FeedingCallThrottled)
          => rate_limiter' = rate_limiter]_vars

\* The promotion of the first listing gave up after three throttled
\* attempts; the first attempt for the second listing is throttled too and
\* backs off from a count of 4.
C25_Witness ==
    /\ pc = "promo_backoff"
    /\ promo_calls = 1
    /\ total_checked = 2
    /\ total_skipped = 1
    /\ rate_limiter.consecutive_errors = 4

====
